---------------------------- MODULE Spec2Model ----------------------------
(***************************************************************************)
(* A model of the Mython interpreter core: the indentation-aware lexer     *)
(* (lexer.cpp / lexer.h) with its token cursor and Expect helpers, the     *)
(* comparison, method-dispatch and printing part of the runtime            *)
(* (runtime.cpp / runtime.h), and the run of a program (main.cpp).         *)
(*                                                                         *)
(* Characters are one-character strings, texts are sequences of            *)
(* characters.  A std::istream is a record [buf, pos, eof, fail]: the text, *)
(* the index of the next character to extract, and the eofbit and failbit. *)
(***************************************************************************)
EXTENDS Integers, Sequences, FiniteSets, TLC

VARIABLES
    input,        \* the std::istream handed to the Lexer constructor
    tokens_,      \* Lexer::tokens_
    prev_indent,  \* Lexer::prev_indent
    current_pos,  \* Lexer::current_pos
    pc,           \* where the Lexer is: "start", "lexing", "ready", "failed"
    err,          \* the exception that left the constructor, or "none"
    call,         \* the last cursor call made on the Lexer, with what it returned
    classes,      \* the runtime::Class objects: the methods_ of each class
    fields_,      \* ClassInstance::fields_ of the instance
    result,       \* the last runtime operation, its arguments and its outcome
    executed,     \* the method bodies the last runtime operation executed
    output        \* what has been written to the output stream

vars == <<input, tokens_, prev_indent, current_pos, pc, err, call,
          classes, fields_, result, executed, output>>
lexerVars == <<input, tokens_, prev_indent, pc, err>>
runtimeVars == <<classes, fields_, result, executed, output>>

-----------------------------------------------------------------------------
(* Bounds of the model *)

\* longest source text over IndentChars
MaxLen == 6
\* longest source text over StringChars
MaxStrLen == 4

\* the characters the indentation texts are made of
IndentChars == {" ", "\n", "a", "#", "="}
\* the characters the string-literal texts are made of
StringChars == {"\"", "'", "\\", "n", "a", "\n", "1"}

RECURSIVE Texts(_, _)
Texts(chars, n) ==
    IF n = 0 THEN {<<>>}
    ELSE LET shorter == Texts(chars, n - 1)
         IN  shorter \cup {Append(t, c) : t \in {s \in shorter : Len(s) = n - 1}, c \in chars}

\* the source texts of at most n characters over IndentChars and of at most m
\* over StringChars
SourceTexts(n, m) == Texts(IndentChars, n) \cup Texts(StringChars, m)

\* longest source text of the lexers whose cursor is exercised
MaxCursorLen == 4
CursorTexts == Texts(IndentChars, MaxCursorLen)

-----------------------------------------------------------------------------
(* Character classes of <cctype> in the "C" locale (the grave accent, which *)
(* a TLA+ string cannot hold, is left out of Puncts)                        *)

EOFCHAR == "EOF"
Letters == {"a", "b", "c", "d", "e", "f", "g", "h", "i", "j", "k", "l", "m",
            "n", "o", "p", "q", "r", "s", "t", "u", "v", "w", "x", "y", "z",
            "A", "B", "C", "D", "E", "F", "G", "H", "I", "J", "K", "L", "M",
            "N", "O", "P", "Q", "R", "S", "T", "U", "V", "W", "X", "Y", "Z"}
Digits == {"0", "1", "2", "3", "4", "5", "6", "7", "8", "9"}
Puncts == {"!", "\"", "#", "$", "%", "&", "'", "(", ")", "*", "+", ",", "-",
           ".", "/", ":", ";", "<", "=", ">", "?", "@", "[", "\\", "]", "^",
           "_", "{", "|", "}", "~"}
isalpha(c) == c \in Letters
isdigit(c) == c \in Digits
ispunct(c) == c \in Puncts

-----------------------------------------------------------------------------
(* std::istream *)

good(in) == ~in.eof /\ ~in.fail

\* peek(): the next character without extracting it; at the end of the text
\* it sets eofbit; on a stream that is not good the sentry sets failbit
Peek(in) ==
    IF ~good(in) THEN [c |-> EOFCHAR, in |-> [in EXCEPT !.fail = TRUE]]
    ELSE IF in.pos > Len(in.buf) THEN [c |-> EOFCHAR, in |-> [in EXCEPT !.eof = TRUE]]
    ELSE [c |-> in.buf[in.pos], in |-> in]

\* get(): extracts one character; at the end of the text sets eofbit and failbit
Get(in) ==
    IF ~good(in) THEN [c |-> EOFCHAR, in |-> [in EXCEPT !.fail = TRUE]]
    ELSE IF in.pos > Len(in.buf)
         THEN [c |-> EOFCHAR, in |-> [in EXCEPT !.eof = TRUE, !.fail = TRUE]]
    ELSE [c |-> in.buf[in.pos], in |-> [in EXCEPT !.pos = in.pos + 1]]

\* putback(c) / unget(): clears eofbit, then steps back one character unless
\* the stream has failed
Unget(in) ==
    IF in.fail THEN [in EXCEPT !.eof = FALSE]
    ELSE [in EXCEPT !.eof = FALSE, !.pos = in.pos - 1]

SetMin(S) == CHOOSE x \in S : \A y \in S : x <= y
SetMax(S) == CHOOSE x \in S : \A y \in S : y <= x

\* ignore(n, delim): extracts until n characters are extracted, the text ends
\* (eofbit) or delim has been extracted
Ignore(in, n, delim) ==
    LET len  == Len(in.buf)
        hits == {j \in in.pos..len : in.buf[j] = delim /\ j - in.pos < n}
    IN  IF ~good(in) THEN [in EXCEPT !.fail = TRUE]
        ELSE IF hits # {} THEN [in EXCEPT !.pos = SetMin(hits) + 1]
        ELSE IF len - in.pos + 1 >= n THEN [in EXCEPT !.pos = in.pos + n]
        ELSE [in EXCEPT !.pos = len + 1, !.eof = TRUE]

-----------------------------------------------------------------------------
(* Tokens (parse::Token): a record with the token_type name and, for the    *)
(* valued kinds, the value.                                                 *)

Tok(type) == [type |-> type]
ValTok(type, value) == [type |-> type, value |-> value]
Is(t, type) == t.type = type

\* a lexer under construction: the stream and the Lexer's members
LexState(in, toks, ind) == [input |-> in, tokens_ |-> toks, prev_indent |-> ind, err |-> "none"]
Push(ls, t) == [ls EXCEPT !.tokens_ = Append(@, t)]
Throw(ls, e) == [ls EXCEPT !.err = e]

RECURSIVE Repeat(_, _)
Repeat(t, n) == IF n <= 0 THEN <<>> ELSE Append(Repeat(t, n - 1), t)

KeyWords == {<<"c","l","a","s","s">>, <<"r","e","t","u","r","n">>, <<"i","f">>,
             <<"e","l","s","e">>, <<"d","e","f">>, <<"p","r","i","n","t">>,
             <<"o","r">>, <<"N","o","n","e">>, <<"a","n","d">>, <<"n","o","t">>,
             <<"T","r","u","e">>, <<"F","a","l","s","e">>}

IsKeyWord(word) == word \in KeyWords

KeyWordType(word) ==
    CASE word = <<"c","l","a","s","s">> -> "Class"
      [] word = <<"r","e","t","u","r","n">> -> "Return"
      [] word = <<"i","f">> -> "If"
      [] word = <<"e","l","s","e">> -> "Else"
      [] word = <<"d","e","f">> -> "Def"
      [] word = <<"p","r","i","n","t">> -> "Print"
      [] word = <<"o","r">> -> "Or"
      [] word = <<"N","o","n","e">> -> "None"
      [] word = <<"n","o","t">> -> "Not"
      [] word = <<"a","n","d">> -> "And"
      [] word = <<"T","r","u","e">> -> "True"
      [] word = <<"F","a","l","s","e">> -> "False"

ProcessKeyWord(ls, word) ==
    IF word \in KeyWords THEN Push(ls, Tok(KeyWordType(word))) ELSE ls

RECURSIVE ReadWhile(_, _, _)
\* while (pred(input.peek())) word.push_back(input.get())
ReadWhile(in, word, chars) ==
    LET p == Peek(in)
    IN  IF p.c \in chars
        THEN ReadWhile(Get(p.in).in, Append(word, p.c), chars)
        ELSE [in |-> p.in, word |-> word]

ProcessWord(ls) ==
    LET r  == ReadWhile(ls.input, <<>>, Letters \cup Digits \cup {"_"})
        l2 == [ls EXCEPT !.input = r.in]
    IN  IF IsKeyWord(r.word) THEN ProcessKeyWord(l2, r.word)
        ELSE Push(l2, ValTok("Id", r.word))

RECURSIVE SkipSpaces(_, _)
\* while (input && input.peek() == ' ') { input.get(); space_count++; }
SkipSpaces(in, space_count) ==
    IF in.fail THEN [in |-> in, space_count |-> space_count]
    ELSE LET p == Peek(in)
         IN  IF p.c = " " THEN SkipSpaces(Get(p.in).in, space_count + 1)
             ELSE [in |-> p.in, space_count |-> space_count]

\* ProcessIndent forgetting to record the level it dedented to
ProcessIndent_StaleLevel(ls) ==
    LET sp     == SkipSpaces(ls.input, 0)
        p      == Peek(sp.in)
        l2     == [ls EXCEPT !.input = p.in]
        indent == sp.space_count \div 2
    IN  IF p.c = "\n" THEN l2
        ELSE IF indent > ls.prev_indent
        THEN [l2 EXCEPT !.tokens_ = @ \o Repeat(Tok("Indent"), indent - ls.prev_indent),
                        !.prev_indent = indent]
        ELSE IF indent < ls.prev_indent
        THEN [l2 EXCEPT !.tokens_ = @ \o Repeat(Tok("Dedent"), ls.prev_indent - indent)]
        ELSE l2

\* ProcessIndent without its return on a blank line
ProcessIndent_NoBlankCheck(ls) ==
    LET sp     == SkipSpaces(ls.input, 0)
        p      == Peek(sp.in)
        l2     == [ls EXCEPT !.input = p.in]
        indent == sp.space_count \div 2
    IN  IF indent > ls.prev_indent
        THEN [l2 EXCEPT !.tokens_ = @ \o Repeat(Tok("Indent"), indent - ls.prev_indent),
                        !.prev_indent = indent]
        ELSE IF indent < ls.prev_indent
        THEN [l2 EXCEPT !.tokens_ = @ \o Repeat(Tok("Dedent"), ls.prev_indent - indent),
                        !.prev_indent = indent]
        ELSE l2

ProcessIndent(ls) ==
    LET sp     == SkipSpaces(ls.input, 0)
        p      == Peek(sp.in)
        l2     == [ls EXCEPT !.input = p.in]
        indent == sp.space_count \div 2
    IN  IF p.c = "\n" THEN l2
        ELSE IF indent > ls.prev_indent
        THEN [l2 EXCEPT !.tokens_ = @ \o Repeat(Tok("Indent"), indent - ls.prev_indent),
                        !.prev_indent = indent]
        ELSE IF indent < ls.prev_indent
        THEN [l2 EXCEPT !.tokens_ = @ \o Repeat(Tok("Dedent"), ls.prev_indent - indent),
                        !.prev_indent = indent]
        ELSE l2

IsComparisonOperator(left, right) ==
    <<left, right>> \in {<<">", "=">>, <<"=", "=">>, <<"<", "=">>, <<"!", "=">>}

ProcessComparisonOperator(ls, left, right) ==
    CASE <<left, right>> = <<">", "=">> -> Push(ls, Tok("GreaterOrEq"))
      [] <<left, right>> = <<"<", "=">> -> Push(ls, Tok("LessOrEq"))
      [] <<left, right>> = <<"=", "=">> -> Push(ls, Tok("Eq"))
      [] <<left, right>> = <<"!", "=">> -> Push(ls, Tok("NotEq"))
      [] OTHER -> ls

ProcessSymbol(ls, c) == Push(ls, ValTok("Char", c))

\* ProcessNextLine without its look at the last token
ProcessNextLine_Unguarded(ls) == Push(ls, Tok("Newline"))

ProcessNextLine(ls) ==
    IF ls.tokens_ # <<>> /\ ~Is(ls.tokens_[Len(ls.tokens_)], "Newline")
    THEN Push(ls, Tok("Newline"))
    ELSE ls

DigitValue(c) ==
    CASE c = "0" -> 0 [] c = "1" -> 1 [] c = "2" -> 2 [] c = "3" -> 3 [] c = "4" -> 4
      [] c = "5" -> 5 [] c = "6" -> 6 [] c = "7" -> 7 [] c = "8" -> 8 [] c = "9" -> 9

RECURSIVE stoi(_)
\* std::stoi on a non-empty string of decimal digits (the texts of the model
\* are shorter than the ten digits an int overflows at)
stoi(num_str) ==
    IF num_str = <<>> THEN 0
    ELSE 10 * stoi(SubSeq(num_str, 1, Len(num_str) - 1)) + DigitValue(num_str[Len(num_str)])

ProcessNum(ls) ==
    LET r  == ReadWhile(ls.input, <<>>, Digits)
        l2 == [ls EXCEPT !.input = r.in]
    IN  Push(l2, [type |-> "Number", num |-> stoi(r.word)])

\* the chunk size of input.ignore in IgnoreComment
IgnoreCount == 1024

RECURSIVE IgnoreComment(_)
IgnoreComment(in) ==
    LET a == Ignore(in, IgnoreCount, "\n")
        b == IF ~a.eof THEN Unget(a) ELSE a
        p == Peek(b)
    IN  IF p.c # "\n" /\ ~p.in.eof THEN IgnoreComment(p.in) ELSE p.in

EscapedChar(c) ==
    CASE c = "n" -> "\n" [] c = "t" -> "\t" [] c = "r" -> "\r"
      [] c = "\"" -> "\"" [] c = "'" -> "'" [] c = "\\" -> "\\"

RECURSIVE ReadString(_, _, _, _)
\* the loop of ProcessString over the stream buffer: it is the buffer
\* position of the istreambuf_iterator, which never touches the stream state
ReadString(buf, it, delim, s) ==
    IF it > Len(buf) THEN [err |-> "ParsingError", it |-> it, s |-> s]
    ELSE IF buf[it] = delim THEN [err |-> "none", it |-> it + 1, s |-> s]
    ELSE IF buf[it] = "\\"
    THEN IF it + 1 > Len(buf) THEN [err |-> "ParsingError", it |-> it + 1, s |-> s]
         ELSE IF buf[it + 1] \in {"n", "t", "r", "\"", "'", "\\"}
         THEN ReadString(buf, it + 2, delim, Append(s, EscapedChar(buf[it + 1])))
         ELSE [err |-> "ParsingError", it |-> it + 1, s |-> s]
    ELSE IF buf[it] \in {"\n", "\r"} THEN [err |-> "ParsingError", it |-> it, s |-> s]
    ELSE ReadString(buf, it + 1, delim, Append(s, buf[it]))

ProcessString(ls) ==
    LET g == Get(ls.input)
        r == ReadString(g.in.buf, g.in.pos, g.c, <<>>)
        l2 == [ls EXCEPT !.input = [g.in EXCEPT !.pos = r.it]]
    IN  IF r.err # "none" THEN Throw(l2, r.err)
        ELSE Push(l2, ValTok("String", r.s))

ProcessNextToken(ls) ==
    LET g  == Get(ls.input)
        c  == g.c
        l1 == [ls EXCEPT !.input = g.in]
        back == [ls EXCEPT !.input = Unget(g.in)]
    IN  IF c = "\n" THEN ProcessIndent(ProcessNextLine(l1))
        ELSE IF c = "\"" \/ c = "'" THEN ProcessString(back)
        ELSE IF c = "_" \/ isalpha(c) THEN ProcessWord(back)
        ELSE IF isdigit(c) THEN ProcessNum(back)
        ELSE IF c = "#" THEN [l1 EXCEPT !.input = IgnoreComment(g.in)]
        ELSE IF ispunct(c)
        THEN LET g2 == Get(g.in)
             IN  IF IsComparisonOperator(c, g2.c)
                 THEN ProcessComparisonOperator([ls EXCEPT !.input = g2.in], c, g2.c)
                 ELSE ProcessSymbol([ls EXCEPT !.input = Unget(g2.in)], c)
        ELSE l1

\* ProcessAllTokens up to its loop: the indentation of the first line
BeginTokens(ls) == ProcessIndent(ls)

\* ProcessAllTokens after its loop: the closing Newline and the Eof
EndTokens(ls) ==
    LET last == ls.tokens_[Len(ls.tokens_)]
        l2   == IF ls.tokens_ # <<>> /\ ~Is(last, "Dedent") /\ ~Is(last, "Newline")
                THEN ProcessNextLine(ls) ELSE ls
    IN  Push(l2, Tok("Eof"))

RECURSIVE LexLoop(_)
\* while (input.good()) ProcessNextToken(input);
LexLoop(ls) ==
    IF ls.err # "none" THEN ls
    ELSE IF good(ls.input) THEN LexLoop(ProcessNextToken(ls))
    ELSE ls

NewStream(text) == [buf |-> text, pos |-> 1, eof |-> FALSE, fail |-> FALSE]

\* Lexer::Lexer(input) run to its end: ProcessAllTokens
ProcessAllTokens(text) ==
    LET ls == LexLoop(BeginTokens(LexState(NewStream(text), <<>>, 0)))
    IN  IF ls.err # "none" THEN ls ELSE EndTokens(ls)

-----------------------------------------------------------------------------
(* The runtime: values, classes, one ClassInstance                          *)
(*                                                                         *)
(* An ObjectHolder is a record tagged with the dynamic type of the object  *)
(* it holds; the empty holder is None.  There are three classes, C derived *)
(* from B derived from A, and one instance, of class C.                    *)

\* most methods declared in all the classes together
MaxMethods == 2

None == [kind |-> "None"]
Bool(b) == [kind |-> "Bool", b |-> b]
Number(n) == [kind |-> "Number", n |-> n]
String(str) == [kind |-> "String", s |-> str]
ClassValue(c) == [kind |-> "Class", cls |-> c]
Instance == [kind |-> "ClassInstance", cls |-> "C"]

Values == {None, Bool(FALSE), Bool(TRUE), Number(0), Number(1),
           String(<<>>), String(<<"a">>), ClassValue("A"), Instance}

ClassNames == {"A", "B", "C"}
\* Class::parent_ ("null" is nullptr)
Parent(c) == CASE c = "C" -> "B" [] c = "B" -> "A" [] c = "A" -> "null"

EQUAL_METHOD == "__eq__"
MethodNames == {"m", EQUAL_METHOD}
ParamLists == {<<>>, <<"x">>, <<"x", "y">>}
\* a Method without its body
MethodShapes == {[name |-> n, formal_params |-> ps] : n \in MethodNames, ps \in ParamLists}

NoMethods == [c \in ClassNames |-> <<>>]
TotalMethods(t) == Len(t["A"]) + Len(t["B"]) + Len(t["C"])

\* a Method: its body is the Executable declared at place i of class c
Declare(t, c, shape) ==
    [t EXCEPT ![c] = Append(@, [name |-> shape.name,
                                formal_params |-> shape.formal_params,
                                body |-> <<c, Len(t[c]) + 1>>])]

RECURSIVE ClassTables(_)
\* the class declarations with at most n methods in all
ClassTables(n) ==
    IF n = 0 THEN {NoMethods}
    ELSE LET fewer == ClassTables(n - 1)
         IN  fewer \cup {Declare(t, c, shape) :
                           t \in {u \in fewer : TotalMethods(u) = n - 1},
                           c \in ClassNames, shape \in MethodShapes}

NullMethod == [name |-> "nullptr"]

\* Class::Class: metod_name_to_ptr_[method.name] = &method, in declaration order
MethodNameToPtr(methods, name) ==
    LET at == {i \in 1..Len(methods) : methods[i].name = name}
    IN  IF at = {} THEN NullMethod ELSE methods[SetMax(at)]

\* GetMethod asking the parent before the class's own table
RECURSIVE GetMethod_ParentFirst(_, _)
GetMethod_ParentFirst(c, name) ==
    LET up == IF Parent(c) # "null" THEN GetMethod_ParentFirst(Parent(c), name) ELSE NullMethod
    IN  IF up # NullMethod THEN up ELSE MethodNameToPtr(classes[c], name)

RECURSIVE GetMethod(_, _)
GetMethod(c, name) ==
    LET own == MethodNameToPtr(classes[c], name)
    IN  IF own # NullMethod THEN own
        ELSE IF Parent(c) # "null" THEN GetMethod(Parent(c), name)
        ELSE NullMethod

\* the classes of the chain from c up to the base class
RECURSIVE Chain(_)
Chain(c) == IF c = "null" THEN {} ELSE {c} \cup Chain(Parent(c))

\* HasMethod looking through the whole chain for a method of that name and
\* that number of parameters
HasMethod_AnyInChain(method_name, argument_count) ==
    \E c \in Chain(Instance.cls) : \E i \in 1..Len(classes[c]) :
        /\ classes[c][i].name = method_name
        /\ Len(classes[c][i].formal_params) = argument_count

HasMethod(method_name, argument_count) ==
    LET method == GetMethod(Instance.cls, method_name)
    IN  method # NullMethod /\ Len(method.formal_params) = argument_count

\* a Closure with one more binding
Bind(closure, name, value) ==
    [k \in DOMAIN closure \cup {name} |-> IF k = name THEN value ELSE closure[k]]

EmptyClosure == [k \in {} |-> None]

RECURSIVE BindParams(_, _, _, _)
\* for (i = 0; i < formal_params.size(); i++) args[formal_params[i]] = actual_args[i]
BindParams(closure, formal_params, actual_args, i) ==
    IF i > Len(formal_params) THEN closure
    ELSE BindParams(Bind(closure, formal_params[i], actual_args[i]),
                    formal_params, actual_args, i + 1)

\* Executable::Execute of a method body.  A body is any statement: the bodies
\* of the model write a field of self and return the value their declaration
\* names or else their last parameter, None when they have none.
Execute(method, closure, fields) ==
    [value  |-> IF "returns" \in DOMAIN method THEN method.returns
                ELSE IF method.formal_params = <<>> THEN None
                ELSE closure[method.formal_params[Len(method.formal_params)]],
     fields |-> Bind(fields, "mark", Number(1))]

Thrown(fields, bodies) == [status |-> "runtime_error", fields |-> fields, executed |-> bodies]

\* Call checking the name of the method only
Call_AnyArity(fields, method_name, actual_args) ==
    IF GetMethod(Instance.cls, method_name) = NullMethod THEN Thrown(fields, <<>>)
    ELSE LET method == GetMethod(Instance.cls, method_name)
             n      == IF Len(actual_args) < Len(method.formal_params)
                       THEN Len(actual_args) ELSE Len(method.formal_params)
             args   == BindParams(Bind(EmptyClosure, "self", Instance),
                                  SubSeq(method.formal_params, 1, n), actual_args, 1)
             r      == [value |-> None, fields |-> Bind(fields, "mark", Number(1))]
         IN  [status |-> "ok", value |-> r.value, fields |-> r.fields,
              executed |-> <<[body |-> method.body, closure |-> args]>>]

\* ClassInstance::Call on the instance whose fields_ are `fields`
Call(fields, method_name, actual_args) ==
    IF ~HasMethod(method_name, Len(actual_args)) THEN Thrown(fields, <<>>)
    ELSE LET method == GetMethod(Instance.cls, method_name)
             args   == BindParams(Bind(EmptyClosure, "self", Instance),
                                  method.formal_params, actual_args, 1)
             r      == Execute(method, args, fields)
         IN  [status |-> "ok", value |-> r.value, fields |-> r.fields,
              executed |-> <<[body |-> method.body, closure |-> args]>>]

IsTrue(object) ==
    CASE object.kind = "Bool" -> object.b
      [] object.kind = "Number" -> object.n # 0
      [] object.kind = "String" -> object.s # <<>>
      [] OTHER -> FALSE

Returned(b, fields, bodies) == [status |-> "ok", b |-> b, fields |-> fields, executed |-> bodies]

\* Equal taking a None on either side for equality
Equal_EitherNone(fields, lhs, rhs) ==
    IF lhs.kind = "None" \/ rhs.kind = "None" THEN Returned(TRUE, fields, <<>>)
    ELSE IF lhs.kind = "ClassInstance"
    THEN IF HasMethod(EQUAL_METHOD, 1)
         THEN LET c == Call(fields, EQUAL_METHOD, <<rhs>>)
              IN  Returned(IsTrue(c.value), c.fields, c.executed)
         ELSE Thrown(fields, <<>>)
    ELSE IF lhs.kind = "Bool" /\ rhs.kind = "Bool" THEN Returned(lhs.b = rhs.b, fields, <<>>)
    ELSE IF lhs.kind = "Number" /\ rhs.kind = "Number" THEN Returned(lhs.n = rhs.n, fields, <<>>)
    ELSE IF lhs.kind = "String" /\ rhs.kind = "String" THEN Returned(lhs.s = rhs.s, fields, <<>>)
    ELSE Thrown(fields, <<>>)

\* runtime::Equal
Equal(fields, lhs, rhs) ==
    IF lhs.kind = "None" /\ rhs.kind = "None" THEN Returned(TRUE, fields, <<>>)
    ELSE IF lhs.kind = "ClassInstance"
    THEN IF HasMethod(EQUAL_METHOD, 1)
         THEN LET c == Call(fields, EQUAL_METHOD, <<rhs>>)
              IN  IF c.status = "ok" THEN Returned(IsTrue(c.value), c.fields, c.executed)
                  ELSE c
         ELSE Thrown(fields, <<>>)
    ELSE IF lhs.kind = "Bool" /\ rhs.kind = "Bool" THEN Returned(lhs.b = rhs.b, fields, <<>>)
    ELSE IF lhs.kind = "Number" /\ rhs.kind = "Number" THEN Returned(lhs.n = rhs.n, fields, <<>>)
    ELSE IF lhs.kind = "String" /\ rhs.kind = "String" THEN Returned(lhs.s = rhs.s, fields, <<>>)
    ELSE Thrown(fields, <<>>)

\* NotEqual returning what Equal returns
NotEqual_NoNegation(fields, lhs, rhs) == Equal(fields, lhs, rhs)

\* runtime::NotEqual
NotEqual(fields, lhs, rhs) ==
    LET e == Equal(fields, lhs, rhs)
    IN  IF e.status = "ok" THEN [e EXCEPT !.b = ~e.b] ELSE e

LESS_THAN_METHOD == "__lt__"

\* the characters of the String values, in the order of their codes
CharOrder == <<"0", "1", "A", "B", "a", "b">>
CharCode(c) == CHOOSE i \in 1..Len(CharOrder) : CharOrder[i] = c

RECURSIVE StringLess(_, _)
\* std::string operator<: the lexicographic comparison of the characters
StringLess(l, r) ==
    IF r = <<>> THEN FALSE
    ELSE IF l = <<>> THEN TRUE
    ELSE IF l[1] # r[1] THEN CharCode(l[1]) < CharCode(r[1])
    ELSE StringLess(Tail(l), Tail(r))

\* runtime::Less
Less(fields, lhs, rhs) ==
    IF lhs.kind = "ClassInstance"
    THEN IF HasMethod(LESS_THAN_METHOD, 1)
         THEN LET c == Call(fields, LESS_THAN_METHOD, <<rhs>>)
              IN  IF c.status = "ok" THEN Returned(IsTrue(c.value), c.fields, c.executed)
                  ELSE c
         ELSE Thrown(fields, <<>>)
    ELSE IF lhs.kind = "Bool" /\ rhs.kind = "Bool" THEN Returned(~lhs.b /\ rhs.b, fields, <<>>)
    ELSE IF lhs.kind = "Number" /\ rhs.kind = "Number" THEN Returned(lhs.n < rhs.n, fields, <<>>)
    ELSE IF lhs.kind = "String" /\ rhs.kind = "String"
    THEN Returned(StringLess(lhs.s, rhs.s), fields, <<>>)
    ELSE Thrown(fields, <<>>)

\* Greater as the negation of Less alone
Greater_NotLess(fields, lhs, rhs) ==
    LET l == Less(fields, lhs, rhs)
    IN  IF l.status = "ok" THEN [l EXCEPT !.b = ~l.b] ELSE l

\* runtime::Greater: !(Less(lhs, rhs) || Equal(lhs, rhs)), Equal evaluated only
\* when Less is false
Greater(fields, lhs, rhs) ==
    LET l == Less(fields, lhs, rhs)
    IN  IF l.status # "ok" THEN l
        ELSE IF l.b THEN Returned(FALSE, l.fields, l.executed)
        ELSE LET eq == Equal(l.fields, lhs, rhs)
             IN  IF eq.status # "ok" THEN Thrown(eq.fields, l.executed \o eq.executed)
                 ELSE Returned(~eq.b, eq.fields, l.executed \o eq.executed)

\* runtime::LessOrEqual
LessOrEqual(fields, lhs, rhs) ==
    LET g == Greater(fields, lhs, rhs)
    IN  IF g.status = "ok" THEN [g EXCEPT !.b = ~g.b] ELSE g

\* runtime::GreaterOrEqual
GreaterOrEqual(fields, lhs, rhs) ==
    LET l == Less(fields, lhs, rhs)
    IN  IF l.status = "ok" THEN [l EXCEPT !.b = ~l.b] ELSE l

STR_METHOD == "__str__"

\* ObjectHolder::AssertIsValid: assert(data_ != nullptr)
AssertIsValid(holder) == holder # None

\* ObjectHolder::operator-> followed by the call of Print through the pointer.
\* On an empty holder the assertion aborts the program; compiled out (NDEBUG),
\* operator-> returns nullptr and the virtual call reads the object at the
\* null address, which kills the program.
DereferenceEmpty ==
    {[status |-> "assertion_failed", written |-> <<>>],
     [status |-> "segfault", written |-> <<>>]}

DigitChar(d) == CHOOSE c \in Digits : DigitValue(c) = d

RECURSIVE Decimal(_)
\* os << value_ for an int
Decimal(n) ==
    IF n < 0 THEN <<"-">> \o Decimal(0 - n)
    ELSE IF n < 10 THEN <<DigitChar(n)>>
    ELSE Append(Decimal(n \div 10), DigitChar(n % 10))

\* Object::Print of a value that is not a ClassInstance: the characters written
PrintValue(object) ==
    CASE object.kind = "Number" -> Decimal(object.n)
      [] object.kind = "String" -> object.s
      [] object.kind = "Bool" -> IF object.b THEN <<"T", "r", "u", "e">>
                                 ELSE <<"F", "a", "l", "s", "e">>
      [] object.kind = "Class" -> <<"C", "l", "a", "s", "s", " ", object.cls>>

\* os << this: the address of the instance
ThisAddress == <<"0", "x", "1">>

\* ClassInstance::Print: what it may come to
InstancePrint(fields) ==
    IF HasMethod(STR_METHOD, 0)
    THEN LET c == Call(fields, STR_METHOD, <<>>)
         IN  IF ~AssertIsValid(c.value)
             THEN {[status |-> d.status, written |-> d.written, fields |-> c.fields,
                    executed |-> c.executed] : d \in DereferenceEmpty}
             ELSE {[status |-> "ok", written |-> PrintValue(c.value),
                    fields |-> c.fields, executed |-> c.executed]}
    ELSE {[status |-> "ok", written |-> ThisAddress, fields |-> fields, executed |-> <<>>]}

-----------------------------------------------------------------------------
(* The construction of a Lexer, one ProcessNextToken at a time *)

NoCall == [op |-> "none"]
Idle == [op |-> "none"]
NoClasses == [c \in {} |-> <<>>]

\* no runtime object exists
RuntimeIdle ==
    /\ classes = NoClasses
    /\ fields_ = <<>>
    /\ result = Idle
    /\ executed = <<>>
    /\ output = <<>>

Self == [input |-> input, tokens_ |-> tokens_, prev_indent |-> prev_indent, err |-> err]

Install(ls) ==
    /\ input' = ls.input
    /\ tokens_' = ls.tokens_
    /\ prev_indent' = ls.prev_indent
    /\ err' = ls.err

Init ==
    /\ input \in {NewStream(text) : text \in SourceTexts(MaxLen, MaxStrLen)}
    /\ tokens_ = <<>>
    /\ prev_indent = 0
    /\ current_pos = 0
    /\ pc = "start"
    /\ err = "none"
    /\ call = NoCall
    /\ RuntimeIdle

\* Lexer::Lexer calls ProcessAllTokens, which starts with ProcessIndent
LexerBegin ==
    /\ pc = "start"
    /\ Install(BeginTokens(Self))
    /\ pc' = "lexing"
    /\ UNCHANGED <<current_pos, call, runtimeVars>>

\* one turn of the loop of ProcessAllTokens; an exception leaves the constructor
\* with the tokens pushed so far
LexerStep ==
    /\ pc = "lexing"
    /\ good(input)
    /\ LET ls == ProcessNextToken(Self)
       IN  /\ Install(ls)
           /\ pc' = IF ls.err # "none" THEN "failed" ELSE "lexing"
    /\ UNCHANGED <<current_pos, call, runtimeVars>>

\* the loop has ended: the closing Newline and the Eof
LexerEnd ==
    /\ pc = "lexing"
    /\ ~good(input)
    /\ Install(EndTokens(Self))
    /\ pc' = "ready"
    /\ UNCHANGED <<current_pos, call, runtimeVars>>

Next == LexerBegin \/ LexerStep \/ LexerEnd

Spec == Init /\ [][Next]_vars

-----------------------------------------------------------------------------
(* RunMythonProgram(input, output): the Lexer is constructed, the program is *)
(* parsed, and the program is executed on a new Closure and a SimpleContext *)
(* writing to output.  An exception leaves RunMythonProgram, which catches   *)
(* none.  ParseProgram and the statements are not among the files of the     *)
(* model: they are what the specification says of them, a parser that reads  *)
(* tokens through the cursor and fails or yields a program, and a program    *)
(* that writes to the output and may fail on the way.                        *)

\* longest source text over IndentChars of a run
MaxRunLen == 4
\* longest source text over StringChars of a run
MaxRunStrLen == 3

\* what ParseProgram(lexer) may come to: the place it leaves the cursor at and
\* the exception it throws, "none" when it returns the program
ParseProgram(toks) ==
    {[pos |-> Len(toks) - 1, err |-> "none"]}
        \cup {[pos |-> p, err |-> e] : p \in 0..Len(toks), e \in {"ParseError", "LexerError"}}

\* what program->Execute(closure, context) may come to: what it has written
\* and the exception it throws
ProgramExecute ==
    {[written |-> w, err |-> e] : w \in {<<>>, <<"1">>, <<"1", "2">>},
                                  e \in {"none", "runtime_error"}}

RunInit ==
    /\ input \in {NewStream(text) : text \in SourceTexts(MaxRunLen, MaxRunStrLen)}
    /\ tokens_ = <<>>
    /\ prev_indent = 0
    /\ current_pos = 0
    /\ pc = "start"
    /\ err = "none"
    /\ call = NoCall
    /\ RuntimeIdle

\* ParseProgram starting while the Lexer is still reading the text
RunParse_Early ==
    /\ pc = "lexing"
    /\ \E r \in ParseProgram(tokens_) :
          /\ current_pos' = r.pos
          /\ err' = r.err
          /\ pc' = IF r.err = "none" THEN "parsed" ELSE "failed"
    /\ UNCHANGED <<input, tokens_, prev_indent, call, runtimeVars>>

\* auto program = ParseProgram(lexer);
RunParse ==
    /\ pc = "ready"
    /\ \E r \in ParseProgram(tokens_) :
          /\ current_pos' = r.pos
          /\ err' = r.err
          /\ pc' = IF r.err = "none" THEN "parsed" ELSE "failed"
    /\ UNCHANGED <<input, tokens_, prev_indent, call, runtimeVars>>

\* SimpleContext context{output}; Closure closure; program->Execute(closure, context);
RunExecute ==
    /\ pc = "parsed"
    /\ \E r \in ProgramExecute :
          /\ result' = [op |-> "Execute", closure |-> EmptyClosure]
          /\ output' = output \o r.written
          /\ err' = r.err
          /\ pc' = IF r.err = "none" THEN "done" ELSE "failed"
    /\ UNCHANGED <<input, tokens_, prev_indent, current_pos, call, classes, fields_, executed>>

RunNext == LexerBegin \/ LexerStep \/ LexerEnd \/ RunParse \/ RunExecute

RunSpec == RunInit /\ [][RunNext]_vars

-----------------------------------------------------------------------------
(* The token cursor of a constructed Lexer *)

CurrentToken(toks, pos) ==
    IF pos < Len(toks) THEN toks[pos + 1] ELSE Tok("Eof")

\* NextToken moving the cursor whatever its place
NextToken_Unbounded(toks, pos) ==
    [pos |-> pos + 1, ret |-> CurrentToken(toks, pos + 1)]

NextToken(toks, pos) ==
    IF pos < Len(toks) THEN [pos |-> pos + 1, ret |-> CurrentToken(toks, pos + 1)]
    ELSE [pos |-> pos, ret |-> Tok("Eof")]

\* a Lexer constructed from a text it accepts, its cursor on the first token
CursorInit ==
    /\ \E text \in CursorTexts :
          LET ls == ProcessAllTokens(text)
          IN  /\ ls.err = "none"
              /\ input = ls.input
              /\ tokens_ = ls.tokens_
              /\ prev_indent = ls.prev_indent
    /\ err = "none"
    /\ pc = "ready"
    /\ current_pos = 0
    /\ call = NoCall
    /\ RuntimeIdle

CallCurrentToken ==
    /\ pc = "ready"
    /\ call' = [op |-> "CurrentToken", ret |-> CurrentToken(tokens_, current_pos)]
    /\ UNCHANGED <<lexerVars, current_pos, runtimeVars>>

CallNextToken ==
    /\ pc = "ready"
    /\ LET n == NextToken(tokens_, current_pos)
       IN  /\ current_pos' = n.pos
           /\ call' = [op |-> "NextToken", ret |-> n.ret]
    /\ UNCHANGED <<lexerVars, runtimeVars>>

CursorNext == CallCurrentToken \/ CallNextToken

CursorSpec == CursorInit /\ [][CursorNext]_vars

-----------------------------------------------------------------------------
(* The Expect helpers of a constructed Lexer *)

\* Token::TryAs<T>: the token when it holds a T, nullptr (FALSE) otherwise
TryAs(t, T) == t.type = T

\* token->value of a valued token
TokenValue(t) == IF t.type = "Number" THEN t.num ELSE t.value

\* Lexer::Expect<T>()
Expect(toks, pos, T) ==
    IF TryAs(CurrentToken(toks, pos), T) THEN "none" ELSE "LexerError"

\* Lexer::Expect<T>(value)
ExpectValue(toks, pos, T, value) ==
    LET token == CurrentToken(toks, pos)
    IN  IF TryAs(token, T) /\ TokenValue(token) = value THEN "none" ELSE "LexerError"

\* ExpectNext looking at the current token without calling NextToken
ExpectNext_NoAdvance(toks, pos, T) ==
    [pos |-> pos,
     err |-> IF TryAs(CurrentToken(toks, pos), T) THEN "none" ELSE "LexerError"]

\* Lexer::ExpectNext<T>()
ExpectNext(toks, pos, T) ==
    LET n == NextToken(toks, pos)
    IN  [pos |-> n.pos,
         err |-> IF TryAs(CurrentToken(toks, n.pos), T) THEN "none" ELSE "LexerError"]

\* Lexer::ExpectNext<T>(value): the check is made on the token NextToken returned
ExpectNextValue(toks, pos, T, value) ==
    LET n == NextToken(toks, pos)
    IN  [pos |-> n.pos,
         err |-> IF TryAs(n.ret, T) /\ TokenValue(n.ret) = value THEN "none"
                 ELSE "LexerError"]

\* the token kinds T the helpers are instantiated with
ExpectedTypes == {"Id", "Char", "Number", "Newline", "Indent", "Eof"}
\* the valued kinds with the values expected of them
ExpectedValues == {<<"Id", <<"a">>>>, <<"Id", <<"a", "a">>>>, <<"Char", "=">>,
                   <<"Number", 0>>}

CallExpect ==
    /\ pc = "ready"
    /\ \E T \in ExpectedTypes :
          call' = [op |-> "Expect", type |-> T, err |-> Expect(tokens_, current_pos, T)]
    /\ UNCHANGED <<lexerVars, current_pos, runtimeVars>>

CallExpectValue ==
    /\ pc = "ready"
    /\ \E tv \in ExpectedValues :
          call' = [op |-> "ExpectValue", type |-> tv[1], expected |-> tv,
                   err |-> ExpectValue(tokens_, current_pos, tv[1], tv[2])]
    /\ UNCHANGED <<lexerVars, current_pos, runtimeVars>>

CallExpectNext ==
    /\ pc = "ready"
    /\ \E T \in ExpectedTypes :
          LET r == ExpectNext(tokens_, current_pos, T)
          IN  /\ current_pos' = r.pos
              /\ call' = [op |-> "ExpectNext", type |-> T, err |-> r.err]
    /\ UNCHANGED <<lexerVars, runtimeVars>>

CallExpectNextValue ==
    /\ pc = "ready"
    /\ \E tv \in ExpectedValues :
          LET r == ExpectNextValue(tokens_, current_pos, tv[1], tv[2])
          IN  /\ current_pos' = r.pos
              /\ call' = [op |-> "ExpectNextValue", type |-> tv[1], expected |-> tv,
                          err |-> r.err]
    /\ UNCHANGED <<lexerVars, runtimeVars>>

ExpectStep == CallExpect \/ CallExpectValue \/ CallExpectNext \/ CallExpectNextValue

ExpectSpec == CursorInit /\ [][ExpectStep]_vars

-----------------------------------------------------------------------------
(* The runtime operations on the instance and on values *)

\* no Lexer exists
LexerIdle ==
    /\ input = NewStream(<<>>)
    /\ tokens_ = <<>>
    /\ prev_indent = 0
    /\ current_pos = 0
    /\ pc = "start"
    /\ err = "none"
    /\ call = NoCall

\* the classes are declared and the instance is constructed; its fields are
\* empty or hold one field set by earlier statements
RuntimeInit ==
    /\ LexerIdle
    /\ classes \in ClassTables(MaxMethods)
    /\ fields_ \in {EmptyClosure, Bind(EmptyClosure, "mark", Number(0))}
    /\ result = Idle
    /\ executed = <<>>
    /\ output = <<>>

Outcome(r) ==
    IF r.status # "ok" THEN [status |-> r.status]
    ELSE IF "b" \in DOMAIN r THEN [status |-> "ok", b |-> r.b]
    ELSE [status |-> "ok", value |-> r.value]

\* one operation is applied to the inputs drawn: its arguments, its outcome
\* and its effects are recorded
Finish(op, r) ==
    /\ result = Idle
    /\ result' = [op EXCEPT !.out = Outcome(r)]
    /\ fields_' = r.fields
    /\ executed' = r.executed
    /\ UNCHANGED <<lexerVars, current_pos, call, classes, output>>

DoEqual ==
    \E lhs \in Values, rhs \in Values :
        Finish([op |-> "Equal", lhs |-> lhs, rhs |-> rhs, out |-> Idle],
               Equal(fields_, lhs, rhs))

DoNotEqual ==
    \E lhs \in Values, rhs \in Values :
        Finish([op |-> "NotEqual", lhs |-> lhs, rhs |-> rhs, out |-> Idle],
               NotEqual(fields_, lhs, rhs))

\* the actual arguments of the calls of the model
ArgLists == {<<>>, <<None>>, <<Number(1)>>, <<Number(1), None>>, <<Instance, Number(0)>>,
             <<None, None, None>>}

DoCall ==
    \E method_name \in MethodNames \cup {"absent"}, actual_args \in ArgLists :
        Finish([op |-> "Call", name |-> method_name, args |-> actual_args, out |-> Idle],
               Call(fields_, method_name, actual_args))

RuntimeNext == DoEqual \/ DoNotEqual \/ DoCall

RuntimeSpec == RuntimeInit /\ [][RuntimeNext]_vars

\* the calls of methods alone
DispatchNext == DoCall

DispatchSpec == RuntimeInit /\ [][DispatchNext]_vars

-----------------------------------------------------------------------------
(* The ordering comparisons of the runtime *)

\* the values compared
CompareValues == {None, Instance, Bool(FALSE), Bool(TRUE),
                  Number(0 - 1), Number(0), Number(1), Number(2),
                  String(<<>>), String(<<"a">>), String(<<"a", "b">>), String(<<"b">>),
                  String(<<"B">>), String(<<"1", "0">>)}

\* the comparison methods a class may declare
CompareShapes == {[name |-> n, formal_params |-> ps] :
                    n \in {LESS_THAN_METHOD, EQUAL_METHOD}, ps \in {<<>>, <<"x">>}}

\* no method, one method in A, or one in A and one in C
CompareTables ==
    {NoMethods}
        \cup {Declare(NoMethods, "A", sa) : sa \in CompareShapes}
        \cup {Declare(Declare(NoMethods, "A", sa), "C", sc) :
                 sa \in CompareShapes, sc \in CompareShapes}

CompareInit ==
    /\ LexerIdle
    /\ classes \in CompareTables
    /\ fields_ = EmptyClosure
    /\ result = Idle
    /\ executed = <<>>
    /\ output = <<>>

DoLess ==
    \E lhs \in CompareValues, rhs \in CompareValues :
        Finish([op |-> "Less", lhs |-> lhs, rhs |-> rhs, out |-> Idle],
               Less(fields_, lhs, rhs))

DoGreater ==
    \E lhs \in CompareValues, rhs \in CompareValues :
        Finish([op |-> "Greater", lhs |-> lhs, rhs |-> rhs, out |-> Idle],
               Greater(fields_, lhs, rhs))

DoLessOrEqual ==
    \E lhs \in CompareValues, rhs \in CompareValues :
        Finish([op |-> "LessOrEqual", lhs |-> lhs, rhs |-> rhs, out |-> Idle],
               LessOrEqual(fields_, lhs, rhs))

DoGreaterOrEqual ==
    \E lhs \in CompareValues, rhs \in CompareValues :
        Finish([op |-> "GreaterOrEqual", lhs |-> lhs, rhs |-> rhs, out |-> Idle],
               GreaterOrEqual(fields_, lhs, rhs))

CompareNext == DoLess \/ DoGreater \/ DoLessOrEqual \/ DoGreaterOrEqual

CompareSpec == CompareInit /\ [][CompareNext]_vars

-----------------------------------------------------------------------------
(* Print of the instance *)

\* the values the __str__ bodies of the model return
StrReturns == {None, Number(0), Number(0 - 7), Number(120), String(<<>>),
               String(<<"a", "b">>), Bool(TRUE), Bool(FALSE), ClassValue("A")}

\* the __str__ methods a class may declare
StrShapes == {[name |-> STR_METHOD, formal_params |-> ps, returns |-> v] :
                ps \in {<<>>, <<"x">>}, v \in StrReturns}

\* a Method that returns a given value
DeclareReturning(t, c, shape) ==
    [t EXCEPT ![c] = Append(@, [name |-> shape.name,
                                formal_params |-> shape.formal_params,
                                body |-> <<c, Len(t[c]) + 1>>,
                                returns |-> shape.returns])]

\* no method, a __str__ in A, or a __str__ in A and one in C
StrTables ==
    {NoMethods}
        \cup {DeclareReturning(NoMethods, "A", sa) : sa \in StrShapes}
        \cup {DeclareReturning(DeclareReturning(NoMethods, "A", sa), "C", sc) :
                 sa \in StrShapes, sc \in StrShapes}

PrintInit ==
    /\ LexerIdle
    /\ classes \in StrTables
    /\ fields_ = EmptyClosure
    /\ result = Idle
    /\ executed = <<>>
    /\ output = <<>>

\* instance.Print(os, context), os the output stream
DoPrint ==
    /\ result = Idle
    /\ \E r \in InstancePrint(fields_) :
          /\ result' = [op |-> "Print", out |-> [status |-> r.status]]
          /\ fields_' = r.fields
          /\ executed' = r.executed
          /\ output' = output \o r.written
    /\ UNCHANGED <<lexerVars, current_pos, call, classes>>

PrintNext == DoPrint

PrintSpec == PrintInit /\ [][PrintNext]_vars

-----------------------------------------------------------------------------
(* Properties of the token stream *)

Prefix(toks, k) == SubSeq(toks, 1, k)
Count(toks, type) == Cardinality({i \in 1..Len(toks) : Is(toks[i], type)})
NetIndent(toks) == Count(toks, "Indent") - Count(toks, "Dedent")

\* the first position at or after s of the text that holds no space
RECURSIVE FirstNonSpace(_, _)
FirstNonSpace(text, s) ==
    IF s <= Len(text) /\ text[s] = " " THEN FirstNonSpace(text, s + 1) ELSE s

\* a blank line starts at s: spaces only, up to a newline character
BlankLineAt(text, s) ==
    LET q == FirstNonSpace(text, s) IN q <= Len(text) /\ text[q] = "\n"

\* the starts of the lines of the text that begin before position pos
LineStarts(text, pos) == {1} \cup {i + 1 : i \in {j \in 1..(pos - 1) : j <= Len(text) /\ text[j] = "\n"}}

\* leading spaces of the last non-blank line begun before pos, divided by two
IndentLevelOfText(text, pos) ==
    LET starts == {s \in LineStarts(text, pos) : ~BlankLineAt(text, s)}
    IN  IF starts = {} THEN 0
        ELSE (FirstNonSpace(text, SetMax(starts)) - SetMax(starts)) \div 2

\* C1: the complete token stream of every source text, with or without a
\* trailing newline, holds as many Dedent tokens as Indent tokens.
C1_IndentDedentBalanced ==
    pc = "ready" => Count(tokens_, "Indent") = Count(tokens_, "Dedent")

\* C2: in every prefix of the emitted token stream the Indent tokens minus the
\* Dedent tokens are >= 0, and once a line start has been processed the
\* difference over the whole stream is prev_indent, which is the number of
\* leading spaces of the last non-blank line divided by two.
C2_NetIndentIsPrevIndent ==
    pc \in {"lexing", "ready", "failed"} =>
        /\ \A k \in 0..Len(tokens_) : NetIndent(Prefix(tokens_, k)) >= 0
        /\ NetIndent(tokens_) = prev_indent
        /\ pc = "lexing" => prev_indent = IndentLevelOfText(input.buf, input.pos)

\* C2's case: an indented line of code followed by a line of code at level zero
C2_Witness ==
    /\ pc = "lexing"
    /\ prev_indent = 0
    /\ Count(tokens_, "Indent") = 1
    /\ Count(tokens_, "Dedent") = 1
    /\ Count(tokens_, "Id") = 2

\* C4: no two Newline tokens are adjacent in the emitted token stream.
C4_NoAdjacentNewlines ==
    \A i \in 1..(Len(tokens_) - 1) :
        ~(Is(tokens_[i], "Newline") /\ Is(tokens_[i + 1], "Newline"))

\* C4's case: two lines of code with a blank line or a comment-only line between
C4_Witness ==
    /\ pc = "ready"
    /\ Count(tokens_, "Id") = 2
    /\ \E i \in 2..(Len(input.buf) - 2) :
        /\ input.buf[i] = "\n"
        /\ input.buf[i + 1] \in {"\n", "#"}
        /\ input.buf[i - 1] = "a"
        /\ input.buf[Len(input.buf)] = "a"

\* the literal whose body starts at position i closes with delim before the
\* text ends, before a raw line break and without an unrecognised escape
RECURSIVE LiteralCloses(_, _, _)
LiteralCloses(text, i, delim) ==
    IF i > Len(text) THEN FALSE
    ELSE IF text[i] = delim THEN TRUE
    ELSE IF text[i] \in {"\n", "\r"} THEN FALSE
    ELSE IF text[i] = "\\"
    THEN /\ i + 1 <= Len(text)
         /\ text[i + 1] \in {"n", "t", "r", "\\", "'", "\""}
         /\ LiteralCloses(text, i + 2, delim)
    ELSE LiteralCloses(text, i + 1, delim)

\* the lexer is about to read a string literal that is malformed
AtMalformedString ==
    /\ pc = "lexing"
    /\ good(input)
    /\ input.pos <= Len(input.buf)
    /\ input.buf[input.pos] \in {"\"", "'"}
    /\ ~LiteralCloses(input.buf, input.pos + 1, input.buf[input.pos])

\* C3: lexing a malformed string literal fails with an error of kind
\* LexerError, and no String token is emitted for that literal.
C3_MalformedStringIsLexerError ==
    [][AtMalformedString =>
         (pc' = "failed" /\ err' = "LexerError" /\ tokens_' = tokens_)]_vars

\* the text without its blank lines, from the line start s on
RECURSIVE RemoveBlankLines(_, _)
RemoveBlankLines(text, s) ==
    IF s > Len(text) THEN <<>>
    ELSE IF BlankLineAt(text, s) THEN RemoveBlankLines(text, FirstNonSpace(text, s) + 1)
    ELSE LET nl == {j \in s..Len(text) : text[j] = "\n"}
             e  == IF nl = {} THEN Len(text) ELSE SetMin(nl)
         IN  SubSeq(text, s, e) \o RemoveBlankLines(text, e + 1)

\* C5: blank lines emit no token and leave the indent level unchanged: the
\* outcome of lexing a text (its tokens, its final indent level, its error) is
\* the outcome of lexing the text with its blank lines removed.
C5_BlankLinesIgnored ==
    pc \in {"ready", "failed"} =>
        LET r == ProcessAllTokens(RemoveBlankLines(input.buf, 1))
        IN  /\ tokens_ = r.tokens_
            /\ prev_indent = r.prev_indent
            /\ err = r.err

\* C5's case: a blank line made of spaces between two lines of code
C5_Witness ==
    /\ pc = "ready"
    /\ \E i \in 2..(Len(input.buf) - 2) :
        /\ input.buf[i - 1] = "a"
        /\ input.buf[i] = "\n"
        /\ input.buf[i + 1] = " "
        /\ BlankLineAt(input.buf, i + 1)
    /\ Count(tokens_, "Id") = 2

-----------------------------------------------------------------------------
(* Properties of the runtime *)

Scalars == {"Bool", "Number", "String"}
ScalarsEqual(l, r) ==
    CASE l.kind = "Bool" -> l.b = r.b
      [] l.kind = "Number" -> l.n = r.n
      [] l.kind = "String" -> l.s = r.s

\* the scope a call of `method` with the actual arguments `args` runs in
ScopeOf(method, args) ==
    [k \in {"self"} \cup {method.formal_params[i] : i \in 1..Len(method.formal_params)} |->
        IF k = "self" THEN Instance
        ELSE args[CHOOSE i \in 1..Len(method.formal_params) : method.formal_params[i] = k]]

\* C6: Equal(lhs, rhs) is true when both are None; otherwise, for a left
\* instance whose __eq__ takes one parameter, it is IsTrue of lhs.__eq__(rhs),
\* the one body executed; otherwise, for two scalars of the same kind, it is the
\* equality of their values; in every other case it fails with a runtime error.
C6_EqualCases ==
    [][result'.op = "Equal" =>
         LET l == result'.lhs
             r == result'.rhs
             eq == GetMethod(Instance.cls, EQUAL_METHOD)
         IN  IF l.kind = "None" /\ r.kind = "None"
             THEN result'.out = [status |-> "ok", b |-> TRUE] /\ executed' = <<>>
             ELSE IF l.kind = "ClassInstance" /\ HasMethod(EQUAL_METHOD, 1)
             THEN /\ executed' = <<[body |-> eq.body, closure |-> ScopeOf(eq, <<r>>)]>>
                  /\ result'.out = [status |-> "ok",
                                    b |-> IsTrue(Call(fields_, EQUAL_METHOD, <<r>>).value)]
             ELSE IF l.kind = r.kind /\ l.kind \in Scalars
             THEN result'.out = [status |-> "ok", b |-> ScalarsEqual(l, r)] /\ executed' = <<>>
             ELSE result'.out = [status |-> "runtime_error"] /\ executed' = <<>>]_vars

\* C6's case: an instance compared through an inherited one-parameter __eq__
C6_Witness ==
    /\ result.op = "Equal"
    /\ result.lhs.kind = "ClassInstance"
    /\ result.out = [status |-> "ok", b |-> TRUE]
    /\ Len(executed) = 1
    /\ executed[1].body[1] = "A"

\* C7: NotEqual(a, b) is the negation of Equal(a, b) when Equal returns and
\* fails with a runtime error exactly when Equal fails; Equal(v, v) is true and
\* NotEqual(v, v) false for every Number, String, Bool or None v.
C7_NotEqualNegatesEqual ==
    [][/\ result'.op = "NotEqual" =>
            LET e == Equal(fields_, result'.lhs, result'.rhs)
            IN  IF e.status = "ok"
                THEN result'.out = [status |-> "ok", b |-> ~e.b]
                ELSE result'.out = [status |-> "runtime_error"]
       /\ ( /\ result'.op \in {"Equal", "NotEqual"}
            /\ result'.lhs.kind \in Scalars \cup {"None"}
            /\ result'.lhs.kind = result'.rhs.kind
            /\ result'.lhs = result'.rhs )
          => result'.out = [status |-> "ok", b |-> (result'.op = "Equal")]]_vars

\* C7's case: NotEqual of an instance with a one-parameter __eq__ that answered false
C7_Witness ==
    /\ result.op = "NotEqual"
    /\ result.lhs.kind = "ClassInstance"
    /\ result.out = [status |-> "ok", b |-> TRUE]
    /\ Len(executed) = 1

Defines(c, name) == \E i \in 1..Len(classes[c]) : classes[c][i].name = name

\* the first class that declares `name`, from c up its parents; "null" if none
RECURSIVE NearestDefiner(_, _)
NearestDefiner(c, name) ==
    IF c = "null" THEN "null"
    ELSE IF Defines(c, name) THEN c
    ELSE NearestDefiner(Parent(c), name)

\* C8: method resolution from a class walks the parent chain upward: the
\* class's own method if it declares the name, else the nearest ancestor's,
\* and not found only when no class of the chain declares it; Call executes the
\* method resolved.
C8_NearestDefinitionResolved ==
    /\ \A c \in DOMAIN classes : \A name \in MethodNames \cup {"absent"} :
          LET d == NearestDefiner(c, name)
              m == GetMethod(c, name)
          IN  IF d = "null" THEN m = NullMethod
              ELSE m # NullMethod /\ m.name = name /\ m.body[1] = d
    /\ (result.op = "Call" /\ result.out.status = "ok") =>
          /\ Len(executed) = 1
          /\ executed[1].body[1] = NearestDefiner(Instance.cls, result.name)

\* C8's case: a call of a method that the instance's class does not declare
\* and both its ancestors do
C8_Witness ==
    /\ result.op = "Call"
    /\ result.out.status = "ok"
    /\ ~Defines("C", result.name)
    /\ Defines("B", result.name)
    /\ Defines("A", result.name)
    /\ executed[1].body[1] = "B"

\* C9: Call(name, args) fails with a runtime error, runs no body and leaves
\* the fields alone when HasMethod(name, |args|) is false; otherwise the one
\* body runs in a scope holding self and each formal parameter bound to the
\* actual argument at its position, and nothing else.
C9_CallRequiresHasMethod ==
    [][result'.op = "Call" =>
         IF ~HasMethod(result'.name, Len(result'.args))
         THEN /\ result'.out = [status |-> "runtime_error"]
              /\ executed' = <<>>
              /\ fields_' = fields_
         ELSE LET method == GetMethod(Instance.cls, result'.name)
              IN  /\ result'.out.status = "ok"
                  /\ executed' = <<[body |-> method.body,
                                    closure |-> ScopeOf(method, result'.args)]>>]_vars

\* C9's case: a method of one parameter called with two arguments
C9_Witness ==
    /\ result.op = "Call"
    /\ Len(result.args) = 2
    /\ GetMethod(Instance.cls, result.name) # NullMethod
    /\ Len(GetMethod(Instance.cls, result.name).formal_params) = 1
    /\ result.out = [status |-> "runtime_error"]
    /\ executed = <<>>

-----------------------------------------------------------------------------
(* Properties of the token cursor *)

ReturnedEof(c) == c.op # "none" /\ Is(c.ret, "Eof")

\* C10: CurrentToken returns the token at the cursor, or Eof when the cursor
\* is past the last token, and leaves the cursor; NextToken moves the cursor
\* one token on, short of passing the number of tokens, and returns the new
\* current token; the cursor never exceeds the number of tokens; once a call
\* has returned Eof every later call returns Eof.
C10_CursorCalls ==
    [][/\ call'.op = "CurrentToken" =>
            /\ current_pos' = current_pos
            /\ call'.ret = IF current_pos < Len(tokens_) THEN tokens_[current_pos + 1]
                           ELSE Tok("Eof")
       /\ call'.op = "NextToken" =>
            /\ current_pos' = IF current_pos < Len(tokens_) THEN current_pos + 1
                              ELSE current_pos
            /\ call'.ret = IF current_pos' < Len(tokens_) THEN tokens_[current_pos' + 1]
                           ELSE Tok("Eof")
       /\ current_pos' <= Len(tokens_')
       /\ tokens_' = tokens_
       /\ ReturnedEof(call) => ReturnedEof(call')]_vars

\* C10's case: NextToken called with the cursor already past the last token,
\* after the tokens of a line of code
C10_Witness ==
    /\ pc = "ready"
    /\ call.op = "NextToken"
    /\ current_pos = Len(tokens_)
    /\ Len(tokens_) >= 3
    /\ Is(call.ret, "Eof")

-----------------------------------------------------------------------------
(* Properties of the Expect helpers *)

\* the token under the cursor at place pos
TokenAt(pos) == IF pos < Len(tokens_) THEN tokens_[pos + 1] ELSE [type |-> "Eof"]

\* the token is of the kind, and holds the value when one is expected
Fits(t, c) ==
    /\ t.type = c.type
    /\ ("expected" \in DOMAIN c) =>
          (IF t.type = "Number" THEN t.num = c.expected[2] ELSE t.value = c.expected[2])

\* C11: Expect<T>() and Expect<T>(v) leave the cursor and fail with LexerError
\* exactly when the current token is not a T (or not of value v); ExpectNext<T>()
\* and ExpectNext<T>(v) first move the cursor one token on, as NextToken does,
\* and fail with LexerError exactly when the new current token does not fit.
C11_ExpectChecksCurrentToken ==
    [][/\ call'.op \in {"Expect", "ExpectValue"} =>
            /\ current_pos' = current_pos
            /\ call'.err = IF Fits(TokenAt(current_pos), call') THEN "none" ELSE "LexerError"
       /\ call'.op \in {"ExpectNext", "ExpectNextValue"} =>
            /\ current_pos' = IF current_pos < Len(tokens_) THEN current_pos + 1
                              ELSE current_pos
            /\ call'.err = IF Fits(TokenAt(current_pos'), call') THEN "none" ELSE "LexerError"
       /\ tokens_' = tokens_]_vars

\* C11's case: ExpectNext<Id>(v) moved the cursor onto an Id of another value
\* and failed
C11_Witness ==
    /\ pc = "ready"
    /\ call.op = "ExpectNextValue"
    /\ call.type = "Id"
    /\ current_pos >= 1
    /\ TokenAt(current_pos).type = "Id"
    /\ call.err = "LexerError"

-----------------------------------------------------------------------------
(* Properties of a run *)

\* the Lexer has read its whole text: the stream is no longer good
WholeInputRead == ~good(input)

\* C12: a run tokenizes the entire input, then parses the whole token stream,
\* then executes on an empty global scope; nothing is written to the output
\* before tokenizing and parsing have both completed, so a run that a lexer or
\* parser error ends has written nothing.
C12_PhasesInOrder ==
    [][/\ pc' = "parsed" => pc = "ready"
       /\ (pc = "ready" /\ pc' # "ready") =>
            /\ WholeInputRead
            /\ Is(tokens_[Len(tokens_)], "Eof")
            /\ tokens_' = tokens_
            /\ output' = <<>>
       /\ tokens_' # tokens_ => pc \in {"start", "lexing"}
       /\ result' # result =>
            (pc = "parsed" /\ result' = [op |-> "Execute", closure |-> EmptyClosure])
       /\ output' # output => pc = "parsed"
       /\ (pc' = "failed" /\ pc \in {"start", "lexing", "ready"}) => output' = <<>>
       /\ pc' = "done" => pc = "parsed"]_vars

\* C12's case: a run that tokenized and parsed its text and then wrote its output
C12_Witness ==
    /\ pc = "done"
    /\ Len(tokens_) >= 3
    /\ current_pos = Len(tokens_) - 1
    /\ output # <<>>

-----------------------------------------------------------------------------
(* Properties of the ordering comparisons *)

\* C13: for two values a and b of the same scalar kind exactly one of
\* Less(a, b), Equal(a, b), Greater(a, b) is true; Greater(a, b) is Less(b, a);
\* LessOrEqual(a, b) is Less(a, b) or Equal(a, b); GreaterOrEqual(a, b) is not
\* Less(a, b).
C13_ScalarOrdering ==
    [][( /\ result'.op \in {"Less", "Greater", "LessOrEqual", "GreaterOrEqual"}
         /\ result'.lhs.kind \in Scalars
         /\ result'.lhs.kind = result'.rhs.kind ) =>
         LET a  == result'.lhs
             b  == result'.rhs
             lt == Less(fields_, a, b)
             eq == Equal(fields_, a, b)
             gt == Greater(fields_, a, b)
         IN  /\ result'.out.status = "ok"
             /\ lt.status = "ok" /\ eq.status = "ok" /\ gt.status = "ok"
             /\ Cardinality({r \in {<<"lt", lt.b>>, <<"eq", eq.b>>, <<"gt", gt.b>>} : r[2]}) = 1
             /\ result'.op = "Greater" => result'.out.b = Less(fields_, b, a).b
             /\ result'.op = "LessOrEqual" => result'.out.b = (lt.b \/ eq.b)
             /\ result'.op = "GreaterOrEqual" => result'.out.b = ~lt.b]_vars

\* C13's case: Greater of two strings, the second a proper prefix of the first
C13_Witness ==
    /\ result.op = "Greater"
    /\ result.lhs = String(<<"a", "b">>)
    /\ result.rhs = String(<<"a">>)
    /\ result.out = [status |-> "ok", b |-> TRUE]

-----------------------------------------------------------------------------
(* Properties of comment-only lines *)

\* a comment-only line starts at s: spaces only, up to a '#'
CommentLineAt(text, s) ==
    LET q == FirstNonSpace(text, s) IN q <= Len(text) /\ text[q] = "#"

\* the text without its comment-only lines, from the line start s on
RECURSIVE RemoveCommentLines(_, _)
RemoveCommentLines(text, s) ==
    IF s > Len(text) THEN <<>>
    ELSE LET nl == {j \in s..Len(text) : text[j] = "\n"}
             e  == IF nl = {} THEN Len(text) ELSE SetMin(nl)
         IN  IF CommentLineAt(text, s) THEN RemoveCommentLines(text, e + 1)
             ELSE SubSeq(text, s, e) \o RemoveCommentLines(text, e + 1)

\* C14: a line of optional leading spaces and a '#' comment emits no token and
\* leaves the indent level unchanged, whatever its indentation: the token
\* stream of a text is the token stream of the text with its comment-only
\* lines removed.
C14_CommentLinesIgnored ==
    pc = "ready" =>
        LET r == ProcessAllTokens(RemoveCommentLines(input.buf, 1))
        IN  /\ tokens_ = r.tokens_
            /\ prev_indent = r.prev_indent

-----------------------------------------------------------------------------
(* Properties of the lookup by name *)

\* the method that stands for `name` in class c: the last one declared there
LastDeclared(c, name) ==
    LET at == {i \in 1..Len(classes[c]) : classes[c][i].name = name}
    IN  classes[c][CHOOSE i \in at : \A j \in at : j <= i]

\* some class above c declares `name` with n parameters
AncestorTakes(c, name, n) ==
    \E a \in Chain(Parent(c)) : \E i \in 1..Len(classes[a]) :
        /\ classes[a][i].name = name
        /\ Len(classes[a][i].formal_params) = n

\* C15: the lookup is by name only: HasMethod(name, n) looks at the one method
\* named `name` found first from the instance's class upward (in a class, the
\* last declared of that name); when that method does not take n parameters
\* HasMethod is false and Call fails with a runtime error, even if an ancestor
\* declares `name` with n parameters.
C15_NearestNameHidesArity ==
    /\ \A name \in MethodNames \cup {"absent"} : \A n \in 0..3 :
          LET d == NearestDefiner(Instance.cls, name)
          IN  HasMethod(name, n) <=>
                  (d # "null" /\ Len(LastDeclared(d, name).formal_params) = n)
    /\ result.op = "Call" =>
          LET d == NearestDefiner(Instance.cls, result.name)
              n == Len(result.args)
          IN  IF d # "null" /\ Len(LastDeclared(d, result.name).formal_params) = n
              THEN /\ result.out.status = "ok"
                   /\ Len(executed) = 1
                   /\ executed[1].body = LastDeclared(d, result.name).body
              ELSE result.out = [status |-> "runtime_error"] /\ executed = <<>>

\* C15's case: the instance's class declares the name with one parameter, an
\* ancestor declares it with none, and a call with no argument fails
C15_Witness ==
    /\ result.op = "Call"
    /\ result.args = <<>>
    /\ NearestDefiner(Instance.cls, result.name) = "C"
    /\ Len(LastDeclared("C", result.name).formal_params) = 1
    /\ AncestorTakes("C", result.name, 0)
    /\ result.out = [status |-> "runtime_error"]

-----------------------------------------------------------------------------
(* Properties of Print *)

\* the value the instance's __str__ returns
StrValue == LastDeclared(NearestDefiner(Instance.cls, STR_METHOD), STR_METHOD).returns

\* C16: the holder ClassInstance::Print dereferences is never empty: for an
\* instance whose class chain provides __str__ with no parameter, Print
\* completes for every value __str__ returns, None too, for which it writes
\* nothing.
C16_PrintCompletes ==
    (result.op = "Print" /\ HasMethod(STR_METHOD, 0)) =>
        /\ result.out.status = "ok"
        /\ StrValue = None => output = <<>>

=============================================================================
